---- MODULE Spec2Model ----
(***************************************************************************)
(* A model of the direct API client of apiki (src/apiki/client.py):        *)
(* construction (spec fetch + endpoint indexing), base URL resolution,     *)
(* the five verb methods with their response normalisation, and the two    *)
(* read-only lookups.                                                      *)
(*                                                                         *)
(* Python strings are sequences of one-character strings, so that          *)
(* startswith / endswith / upper / lower / concatenation are computed      *)
(* and not assumed.  Decoded JSON values are tagged records.               *)
(***************************************************************************)
EXTENDS Integers, Sequences, FiniteSets, TLC

(***************************************************************************)
(* Bounds                                                                  *)
(***************************************************************************)
\* at most this many verb requests are issued in one client lifetime
MaxCalls == 2

(***************************************************************************)
(* String literals of the source                                           *)
(***************************************************************************)
S_paths == <<"p", "a", "t", "h", "s">>
S_servers == <<"s", "e", "r", "v", "e", "r", "s">>
S_url == <<"u", "r", "l">>
S_summary == <<"s", "u", "m", "m", "a", "r", "y">>
S_description == <<"d", "e", "s", "c", "r", "i", "p", "t", "i", "o", "n">>
S_parameters == <<"p", "a", "r", "a", "m", "e", "t", "e", "r", "s">>
S_requestBody == <<"r", "e", "q", "u", "e", "s", "t", "B", "o", "d", "y">>
S_responses == <<"r", "e", "s", "p", "o", "n", "s", "e", "s">>
S_get == <<"g", "e", "t">>
S_post == <<"p", "o", "s", "t">>
S_put == <<"p", "u", "t">>
S_delete == <<"d", "e", "l", "e", "t", "e">>
S_patch == <<"p", "a", "t", "c", "h">>
HTTP == <<"h", "t", "t", "p", ":", "/", "/">>
HTTPS == <<"h", "t", "t", "p", "s", ":", "/", "/">>
SLASH == <<"/">>

(***************************************************************************)
(* Python string methods                                                   *)
(***************************************************************************)
LowerAlpha == <<"a", "b", "c", "d", "e", "f", "g", "h", "i", "j", "k", "l", "m",
                "n", "o", "p", "q", "r", "s", "t", "u", "v", "w", "x", "y", "z">>
UpperAlpha == <<"A", "B", "C", "D", "E", "F", "G", "H", "I", "J", "K", "L", "M",
                "N", "O", "P", "Q", "R", "S", "T", "U", "V", "W", "X", "Y", "Z">>

UpperChar(c) ==
    IF \E i \in 1..Len(LowerAlpha) : LowerAlpha[i] = c
    THEN UpperAlpha[CHOOSE i \in 1..Len(LowerAlpha) : LowerAlpha[i] = c]
    ELSE c

LowerChar(c) ==
    IF \E i \in 1..Len(UpperAlpha) : UpperAlpha[i] = c
    THEN LowerAlpha[CHOOSE i \in 1..Len(UpperAlpha) : UpperAlpha[i] = c]
    ELSE c

\* str.upper()
upper(s) == [i \in 1..Len(s) |-> UpperChar(s[i])]

\* str.lower()
lower(s) == [i \in 1..Len(s) |-> LowerChar(s[i])]

\* str.startswith(p)
startswith(s, p) == Len(s) >= Len(p) /\ SubSeq(s, 1, Len(p)) = p

\* str.endswith(p)
endswith(s, p) == Len(s) >= Len(p) /\ SubSeq(s, Len(s) - Len(p) + 1, Len(s)) = p

\* a in b, for two strings
IsSubstring(a, b) ==
    \E i \in 0..(Len(b) - Len(a)) : SubSeq(b, i + 1, i + Len(a)) = a

(***************************************************************************)
(* Decoded JSON values, and the outcome of an evaluation that may raise    *)
(***************************************************************************)
JNull == [t |-> "null"]
JNum(n) == [t |-> "num", n |-> n]
JStr(s) == [t |-> "str", s |-> s]
JList(l) == [t |-> "list", l |-> l]
JBool(b) == [t |-> "bool", b |-> b]
\* a dict keeps insertion order: a sequence of <<key, value>> with unique keys
JMap(kv) == [t |-> "map", kv |-> kv]

Ok(v) == [ok |-> TRUE, v |-> v]
Raise(e) == [ok |-> FALSE, exc |-> e]

Keys(m) == {m.kv[i][1] : i \in 1..Len(m.kv)}
Lookup(m, k) == m.kv[CHOOSE i \in 1..Len(m.kv) : m.kv[i][1] = k][2]

\* key in container, for a string key
PyIn(k, c) ==
    CASE c.t = "map" -> Ok(k \in Keys(c))
      [] c.t = "list" -> Ok(\E i \in 1..Len(c.l) : c.l[i] = JStr(k))
      [] c.t = "str" -> Ok(IsSubstring(k, c.s))
      [] OTHER -> Raise("TypeError")

\* bool(value)
PyTruthy(c) ==
    CASE c.t = "map" -> Len(c.kv) > 0
      [] c.t = "list" -> Len(c.l) > 0
      [] c.t = "str" -> Len(c.s) > 0
      [] c.t = "num" -> c.n # 0
      [] c.t = "bool" -> c.b
      [] OTHER -> FALSE

\* container[key], for a string key
PyGetKey(c, k) ==
    CASE c.t = "map" -> IF k \in Keys(c) THEN Ok(Lookup(c, k)) ELSE Raise("KeyError")
      [] OTHER -> Raise("TypeError")

\* container[-1]
PyGetLast(c) ==
    CASE c.t = "list" -> IF Len(c.l) > 0 THEN Ok(c.l[Len(c.l)]) ELSE Raise("IndexError")
      [] c.t = "str" -> IF Len(c.s) > 0 THEN Ok(JStr(<<c.s[Len(c.s)]>>)) ELSE Raise("IndexError")
      [] c.t = "map" -> Raise("KeyError")
      [] OTHER -> Raise("TypeError")

\* container[0]
PyGetFirst(c) ==
    CASE c.t = "list" -> IF Len(c.l) > 0 THEN Ok(c.l[1]) ELSE Raise("IndexError")
      [] c.t = "str" -> IF Len(c.s) > 0 THEN Ok(JStr(<<c.s[1]>>)) ELSE Raise("IndexError")
      [] c.t = "map" -> Raise("KeyError")
      [] OTHER -> Raise("TypeError")

\* mapping.get(key, default); only a dict has .get
PyDictGet(c, k, default) == IF k \in Keys(c) THEN Lookup(c, k) ELSE default

(***************************************************************************)
(* str(value) as Python renders decoded JSON                               *)
(***************************************************************************)
S_None == <<"N", "o", "n", "e">>
S_True == <<"T", "r", "u", "e">>
S_False == <<"F", "a", "l", "s", "e">>
Digit == <<"0", "1", "2", "3", "4", "5", "6", "7", "8", "9">>

RECURSIVE IntStr(_)
IntStr(n) == IF n < 10 THEN <<Digit[n + 1]>> ELSE IntStr(n \div 10) \o <<Digit[(n % 10) + 1]>>

RECURSIVE PyRepr(_), ReprItems(_, _), ReprPairs(_, _)
PyRepr(v) ==
    CASE v.t = "null" -> S_None
      [] v.t = "num" -> IntStr(v.n)
      [] v.t = "bool" -> IF v.b THEN S_True ELSE S_False
      [] v.t = "str" -> <<"'">> \o v.s \o <<"'">>
      [] v.t = "list" -> <<"[">> \o ReprItems(v.l, 1) \o <<"]">>
      [] v.t = "map" -> <<"{">> \o ReprPairs(v.kv, 1) \o <<"}">>

ReprItems(l, i) ==
    IF i > Len(l) THEN <<>>
    ELSE PyRepr(l[i]) \o (IF i < Len(l) THEN <<",", " ">> ELSE <<>>) \o ReprItems(l, i + 1)

ReprPairs(kv, i) ==
    IF i > Len(kv) THEN <<>>
    ELSE <<"'">> \o kv[i][1] \o <<"'", ":", " ">> \o PyRepr(kv[i][2])
         \o (IF i < Len(kv) THEN <<",", " ">> ELSE <<>>) \o ReprPairs(kv, i + 1)

\* str(value)
PyStr(v) == IF v.t = "str" THEN v.s ELSE PyRepr(v)

(***************************************************************************)
(* APIClient._fetch_openapi_spec                                           *)
(*                                                                         *)
(* net is the outcome of requests.get on the spec URL: a transport         *)
(* failure, or a response with its status code and the outcome of          *)
(* response.json().  Every exception is turned into ValueError.            *)
(***************************************************************************)
\* requests.Response.raise_for_status raises for 4xx and 5xx only
raise_for_status(status_code) == status_code >= 400 /\ status_code < 600

\* the status of the response is not looked at
fetch_openapi_spec_no_status_check(net) ==
    IF net.kind = "fail" THEN Raise("ValueError")
    ELSE IF ~net.json.ok THEN Raise("ValueError")
    ELSE Ok(net.json.v)

\* a failed fetch answered with an empty document
fetch_openapi_spec_swallow(net) ==
    IF net.kind = "fail" THEN Ok(JMap(<<>>))
    ELSE IF raise_for_status(net.status_code) THEN Ok(JMap(<<>>))
    ELSE IF ~net.json.ok THEN Ok(JMap(<<>>))
    ELSE Ok(net.json.v)

fetch_openapi_spec(net) ==
    IF net.kind = "fail" THEN Raise("ValueError")
    ELSE IF raise_for_status(net.status_code) THEN Raise("ValueError")
    ELSE IF ~net.json.ok THEN Raise("ValueError")
    ELSE Ok(net.json.v)

(***************************************************************************)
(* APIClient._parse_endpoints                                              *)
(***************************************************************************)
SupportedMethods == {S_get, S_post, S_put, S_delete, S_patch}

\* the five fields kept of an operation object
OperationDetails(details) ==
    [summary |-> PyDictGet(details, S_summary, JStr(<<>>)),
     description |-> PyDictGet(details, S_description, JStr(<<>>)),
     parameters |-> PyDictGet(details, S_parameters, JList(<<>>)),
     requestBody |-> PyDictGet(details, S_requestBody, JMap(<<>>)),
     responses |-> PyDictGet(details, S_responses, JMap(<<>>))]

\* the method key compared without lower-casing it
MethodsOf_case_sensitive(methods) ==
    LET kept == {i \in 1..Len(methods.kv) : methods.kv[i][1] \in SupportedMethods}
        last(M) == CHOOSE i \in kept :
                      /\ upper(methods.kv[i][1]) = M
                      /\ \A j \in kept : upper(methods.kv[j][1]) = M => j <= i
    IN [M \in {upper(methods.kv[i][1]) : i \in kept} |->
            OperationDetails(methods.kv[last(M)][2])]

\* endpoints[path] after the inner loop over methods.items(): a later key
\* that upper-cases to the same method overwrites an earlier one
MethodsOf(methods) ==
    LET kept == {i \in 1..Len(methods.kv) : lower(methods.kv[i][1]) \in SupportedMethods}
        last(M) == CHOOSE i \in kept :
                      /\ upper(methods.kv[i][1]) = M
                      /\ \A j \in kept : upper(methods.kv[j][1]) = M => j <= i
    IN [M \in {upper(methods.kv[i][1]) : i \in kept} |->
            OperationDetails(methods.kv[last(M)][2])]

\* .items() and .get() exist on a dict only
EndpointsWellFormed(paths) ==
    /\ paths.t = "map"
    /\ \A i \in 1..Len(paths.kv) :
          LET methods == paths.kv[i][2] IN
          /\ methods.t = "map"
          /\ \A j \in 1..Len(methods.kv) :
                lower(methods.kv[j][1]) \in SupportedMethods
                    => methods.kv[j][2].t = "map"

parse_endpoints(spec_dict_) ==
    LET has == PyIn(S_paths, spec_dict_) IN
    IF ~has.ok THEN has
    ELSE IF ~has.v THEN Ok(<<>>)
    ELSE LET paths == PyGetKey(spec_dict_, S_paths) IN
         IF ~paths.ok THEN paths
         ELSE IF ~EndpointsWellFormed(paths.v) THEN Raise("AttributeError")
         ELSE Ok([p \in Keys(paths.v) |-> MethodsOf(Lookup(paths.v, p))])

(***************************************************************************)
(* APIClient._get_base_url                                                 *)
(***************************************************************************)
\* lines 155-158: the value chosen before normalisation
SelectBaseURL(spec_dict_, config_) ==
    LET has == PyIn(S_servers, spec_dict_) IN
    IF ~has.ok THEN has
    ELSE IF ~has.v THEN Ok(JStr(config_.api_base_url))
    ELSE LET servers == PyGetKey(spec_dict_, S_servers) IN
         IF ~servers.ok THEN servers
         ELSE IF ~PyTruthy(servers.v) THEN Ok(JStr(config_.api_base_url))
         ELSE LET first == PyGetFirst(servers.v) IN
              IF ~first.ok THEN first
              ELSE LET hasurl == PyIn(S_url, first.v) IN
                   IF ~hasurl.ok THEN hasurl
                   ELSE IF ~hasurl.v THEN Ok(JStr(config_.api_base_url))
                   ELSE PyGetKey(first.v, S_url)

\* lines 160-162: one trailing slash is removed
StripSlash(base_url) ==
    IF endswith(base_url, SLASH) THEN SubSeq(base_url, 1, Len(base_url) - 1)
    ELSE base_url

\* lines 164-166
EnsureScheme(base_url) ==
    IF ~(startswith(base_url, HTTP) \/ startswith(base_url, HTTPS))
    THEN HTTPS \o base_url
    ELSE base_url

\* lines 160-168; a value that is not a str has no endswith
NormalizeBaseURL(v) ==
    IF v.t # "str" THEN Raise("AttributeError")
    ELSE Ok(EnsureScheme(StripSlash(v.s)))

get_base_url(spec_dict_, config_) ==
    LET chosen == SelectBaseURL(spec_dict_, config_) IN
    IF ~chosen.ok THEN chosen ELSE NormalizeBaseURL(chosen.v)

(***************************************************************************)
(* APIResponse, APIClientConfig                                            *)
(***************************************************************************)
\* the field defaults of APIResponse: None, None, {} and {}
APIResponseDefaults ==
    [data |-> JNull, error |-> JNull, headers |-> <<>>, request_info |-> <<>>]

\* APIResponse(**given)
APIResponse(given) == given @@ APIResponseDefaults

DefaultTimeout == 30

\* APIClientConfig(api_base_url=..., headers=...), the other fields at their defaults
APIClientConfig(api_base_url, headers) ==
    [api_base_url |-> api_base_url, headers |-> headers,
     timeout |-> DefaultTimeout, verify_ssl |-> TRUE]

(***************************************************************************)
(* APIClient._prepare_request_kwargs                                       *)
(***************************************************************************)
prepare_request_kwargs(config_, params, data) ==
    LET headers == config_.headers @@ ("Content-Type" :> "application/json")
        base == [timeout |-> config_.timeout, verify |-> config_.verify_ssl,
                 headers |-> headers]
        withParams == IF PyTruthy(params) THEN ("params" :> params) @@ base ELSE base
    IN IF PyTruthy(data) THEN ("json" :> data) @@ withParams ELSE withParams

(***************************************************************************)
(* APIClient._process_response                                             *)
(***************************************************************************)
B_obj == <<"{", "\"", "k", "\"", ":", " ", "1", "}">>
B_html == <<"<", "h", ">">>
B_null == <<"n", "u", "l", "l">>
S_k == <<"k">>

B_status_ok == <<"{", "\"", "s", "t", "a", "t", "u", "s", "\"", ":", "\"", "o", "k", "\"", "}">>
B_detail == <<"{", "\"", "d", "e", "t", "a", "i", "l", "\"", ":",
              "\"", "u", "n", "a", "v", "a", "i", "l", "a", "b", "l", "e", "\"", "}">>

(***************************************************************************)
(* json.loads, for JSON texts made of objects, arrays, strings without     *)
(* escape sequences, non-negative integers, true, false and null           *)
(***************************************************************************)
ParseOk(v, next) == [ok |-> TRUE, v |-> v, next |-> next]
ParseFail == [ok |-> FALSE]

IsDigit(c) == \E d \in 1..Len(Digit) : Digit[d] = c
DigitVal(c) == (CHOOSE d \in 1..Len(Digit) : Digit[d] = c) - 1

\* s[i..] matches the literal w
Matches(s, i, w) == i + Len(w) - 1 <= Len(s) /\ SubSeq(s, i, i + Len(w) - 1) = w

RECURSIVE SkipWs(_, _)
SkipWs(s, i) == IF i <= Len(s) /\ s[i] = " " THEN SkipWs(s, i + 1) ELSE i

\* the index of the closing quote at or after i, 0 when there is none
RECURSIVE ScanQuote(_, _)
ScanQuote(s, i) ==
    IF i > Len(s) \/ s[i] = "\\" THEN 0
    ELSE IF s[i] = "\"" THEN i
    ELSE ScanQuote(s, i + 1)

\* the index after the run of digits that starts at i
RECURSIVE ScanDigits(_, _)
ScanDigits(s, i) == IF i <= Len(s) /\ IsDigit(s[i]) THEN ScanDigits(s, i + 1) ELSE i

\* the number written in s[i..j-1]
RECURSIVE NumVal(_, _, _)
NumVal(s, i, j) == IF j <= i THEN 0 ELSE NumVal(s, i, j - 1) * 10 + DigitVal(s[j - 1])

\* dict[key] = v: a repeated key keeps its place and takes the later value
DictSet(kv, key, v) ==
    IF \E n \in 1..Len(kv) : kv[n][1] = key
    THEN [kv EXCEPT ![CHOOSE n \in 1..Len(kv) : kv[n][1] = key] = <<key, v>>]
    ELSE Append(kv, <<key, v>>)

RECURSIVE ParseValue(_, _), ParseMembers(_, _, _), ParseElements(_, _, _)
ParseValue(s, i0) ==
    LET i == SkipWs(s, i0) IN
    IF i > Len(s) THEN ParseFail
    ELSE IF s[i] = "{" THEN
        LET j == SkipWs(s, i + 1) IN
        IF j <= Len(s) /\ s[j] = "}" THEN ParseOk(JMap(<<>>), j + 1)
        ELSE ParseMembers(s, j, <<>>)
    ELSE IF s[i] = "[" THEN
        LET j == SkipWs(s, i + 1) IN
        IF j <= Len(s) /\ s[j] = "]" THEN ParseOk(JList(<<>>), j + 1)
        ELSE ParseElements(s, j, <<>>)
    ELSE IF s[i] = "\"" THEN
        LET k == ScanQuote(s, i + 1) IN
        IF k = 0 THEN ParseFail ELSE ParseOk(JStr(SubSeq(s, i + 1, k - 1)), k + 1)
    ELSE IF IsDigit(s[i]) THEN
        LET k == ScanDigits(s, i) IN
        IF s[i] = "0" /\ k > i + 1 THEN ParseFail ELSE ParseOk(JNum(NumVal(s, i, k)), k)
    ELSE IF Matches(s, i, <<"n", "u", "l", "l">>) THEN ParseOk(JNull, i + 4)
    ELSE IF Matches(s, i, <<"t", "r", "u", "e">>) THEN ParseOk(JBool(TRUE), i + 4)
    ELSE IF Matches(s, i, <<"f", "a", "l", "s", "e">>) THEN ParseOk(JBool(FALSE), i + 5)
    ELSE ParseFail

\* the members of an object, from the first character of a key
ParseMembers(s, i, acc) ==
    IF i > Len(s) \/ s[i] # "\"" THEN ParseFail
    ELSE LET k == ScanQuote(s, i + 1) IN
         IF k = 0 THEN ParseFail
         ELSE LET c == SkipWs(s, k + 1) IN
              IF c > Len(s) \/ s[c] # ":" THEN ParseFail
              ELSE LET val == ParseValue(s, c + 1) IN
                   IF ~val.ok THEN ParseFail
                   ELSE LET acc2 == DictSet(acc, SubSeq(s, i + 1, k - 1), val.v)
                            d == SkipWs(s, val.next)
                        IN IF d > Len(s) THEN ParseFail
                           ELSE IF s[d] = "}" THEN ParseOk(JMap(acc2), d + 1)
                           ELSE IF s[d] = "," THEN ParseMembers(s, SkipWs(s, d + 1), acc2)
                           ELSE ParseFail

\* the elements of an array, from the first character of an element
ParseElements(s, i, acc) ==
    LET val == ParseValue(s, i) IN
    IF ~val.ok THEN ParseFail
    ELSE LET acc2 == Append(acc, val.v)
             d == SkipWs(s, val.next)
         IN IF d > Len(s) THEN ParseFail
            ELSE IF s[d] = "]" THEN ParseOk(JList(acc2), d + 1)
            ELSE IF s[d] = "," THEN ParseElements(s, d + 1, acc2)
            ELSE ParseFail

json_loads(s) ==
    LET r == ParseValue(s, 1) IN
    IF r.ok /\ SkipWs(s, r.next) > Len(s) THEN Ok(r.v) ELSE Raise("JSONDecodeError")

\* requests.Response.json(); with requests>=2.31 and the standard json
\* module the failure is a json.JSONDecodeError
response_json(content) == json_loads(content)

ErrorStatus == 400

\* success computed with <= where error is computed with <
process_response_off_by_one(response, request_info) ==
    LET decoded == response_json(response.content)
        data == IF Len(response.content) = 0 THEN JNull
                ELSE IF decoded.ok THEN decoded.v
                ELSE JStr(response.content)
    IN APIResponse([status_code |-> response.status_code,
                    success |-> response.status_code <= ErrorStatus,
                    data |-> data,
                    error |-> IF response.status_code < ErrorStatus THEN JNull
                              ELSE JStr(PyStr(data)),
                    headers |-> response.headers,
                    request_info |-> request_info])

\* the error text taken from the body only when there is a body
process_response_error_from_body(response, request_info) ==
    LET decoded == response_json(response.content)
        data == IF Len(response.content) = 0 THEN JNull
                ELSE IF decoded.ok THEN decoded.v
                ELSE JStr(response.content)
    IN APIResponse([status_code |-> response.status_code,
                    success |-> response.status_code < ErrorStatus,
                    data |-> data,
                    error |-> IF response.status_code < ErrorStatus \/ data = JNull THEN JNull
                              ELSE JStr(PyStr(data)),
                    headers |-> response.headers,
                    request_info |-> request_info])

\* the body kept only for a successful response
process_response_data_on_success(response, request_info) ==
    LET decoded == response_json(response.content)
        data == IF Len(response.content) = 0 \/ response.status_code >= ErrorStatus THEN JNull
                ELSE IF decoded.ok THEN decoded.v
                ELSE JStr(response.content)
    IN APIResponse([status_code |-> response.status_code,
                    success |-> response.status_code < ErrorStatus,
                    data |-> data,
                    error |-> IF response.status_code < ErrorStatus THEN JNull
                              ELSE JStr(PyStr(data)),
                    headers |-> response.headers,
                    request_info |-> request_info])

\* the error taken from the raw text of the body
process_response_error_raw(response, request_info) ==
    LET decoded == response_json(response.content)
        data == IF Len(response.content) = 0 THEN JNull
                ELSE IF decoded.ok THEN decoded.v
                ELSE JStr(response.content)
    IN APIResponse([status_code |-> response.status_code,
                    success |-> response.status_code < ErrorStatus,
                    data |-> data,
                    error |-> IF response.status_code < ErrorStatus THEN JNull
                              ELSE JStr(response.content),
                    headers |-> response.headers,
                    request_info |-> request_info])

process_response(response, request_info) ==
    LET decoded == response_json(response.content)
        data == IF Len(response.content) = 0 THEN JNull
                ELSE IF decoded.ok THEN decoded.v
                ELSE JStr(response.content)
    IN APIResponse([status_code |-> response.status_code,
                    success |-> response.status_code < ErrorStatus,
                    data |-> data,
                    error |-> IF response.status_code < ErrorStatus THEN JNull
                              ELSE JStr(PyStr(data)),
                    headers |-> response.headers,
                    request_info |-> request_info])

FailureStatus == 500

\* the failure text stored as data and the error left unset
failure_response_as_data(e, request_info) ==
    APIResponse([status_code |-> FailureStatus,
                 success |-> FALSE,
                 data |-> JStr(e.msg),
                 request_info |-> request_info])

\* the except branch of a verb method
failure_response(e, request_info) ==
    APIResponse([status_code |-> FailureStatus,
                 success |-> FALSE,
                 error |-> JStr(e.msg),
                 request_info |-> request_info])

\* a slash put in front of every path
NormalizePath_always(path) == SLASH \o path

\* lines 245-247
NormalizePath(path) == IF ~startswith(path, SLASH) THEN SLASH \o path ELSE path

(***************************************************************************)
(* APIClient.get_endpoint_details                                          *)
(***************************************************************************)
M_path_1 == <<"P", "a", "t", "h", " ", "'">>
M_path_2 == <<"'", " ", "n", "o", "t", " ", "f", "o", "u", "n", "d", " ", "i", "n", " ", "A", "P", "I", " ", "s", "p", "e", "c", "i", "f", "i", "c", "a", "t", "i", "o", "n">>
M_meth_1 == <<"M", "e", "t", "h", "o", "d", " ", "'">>
M_meth_2 == <<"'", " ", "n", "o", "t", " ", "f", "o", "u", "n", "d", " ", "f", "o", "r", " ", "p", "a", "t", "h", " ", "'">>
M_meth_3 == <<"'", " ", "i", "n", " ", "A", "P", "I", " ", "s", "p", "e", "c", "i", "f", "i", "c", "a", "t", "i", "o", "n">>

\* the method looked up as given, without upper-casing it
get_endpoint_details_as_given(endpoints_, path, method) ==
    LET m == method IN
    IF path \notin DOMAIN endpoints_
    THEN [ok |-> FALSE, exc |-> "ValueError", msg |-> M_path_1 \o path \o M_path_2]
    ELSE IF m \notin DOMAIN endpoints_[path]
    THEN [ok |-> FALSE, exc |-> "ValueError",
          msg |-> M_meth_1 \o m \o M_meth_2 \o path \o M_meth_3]
    ELSE Ok(endpoints_[path][m])

get_endpoint_details(endpoints_, path, method) ==
    LET m == upper(method) IN
    IF path \notin DOMAIN endpoints_
    THEN [ok |-> FALSE, exc |-> "ValueError", msg |-> M_path_1 \o path \o M_path_2]
    ELSE IF m \notin DOMAIN endpoints_[path]
    THEN [ok |-> FALSE, exc |-> "ValueError",
          msg |-> M_meth_1 \o m \o M_meth_2 \o path \o M_meth_3]
    ELSE Ok(endpoints_[path][m])

(***************************************************************************)
(* Inputs: configurations, spec documents and transport outcomes           *)
(***************************************************************************)
U_http_h == HTTP \o <<"h">>
U_http_g == HTTP \o <<"g">>
U_https_g == HTTPS \o <<"g">>
U_https_g_slash == HTTPS \o <<"g", "/">>
U_h == <<"h">>
U_h_slash == <<"h", "/">>
U_h_2slash == <<"h", "/", "/">>

P_a == <<"/", "a">>
P_health == <<"/", "v", "3", "/", "h", "e", "a", "l", "t", "h">>
S_health_check == <<"H", "e", "a", "l", "t", "h", " ", "c", "h", "e", "c", "k">>
P_b == <<"/", "b">>
P_zz == <<"/", "z", "z">>
P_rel == <<"a">>

K_GET == <<"G", "E", "T">>
K_Post == <<"P", "o", "s", "t">>
K_options == <<"o", "p", "t", "i", "o", "n", "s">>
K_HEAD == <<"H", "E", "A", "D">>
K_trace == <<"t", "r", "a", "c", "e">>
S_q == <<"q">>
S_s == <<"s">>

Configs ==
    << APIClientConfig(U_http_h, <<>>),
       APIClientConfig(U_h_slash, [x \in {"Content-Type", "X-Key"} |->
                                      IF x = "X-Key" THEN "secret" ELSE "text/plain"]) >>

Server(url) == JMap(<< <<S_url, JStr(url)>> >>)
Operation(summary) == JMap(<< <<S_summary, JStr(summary)>> >>)
EmptyMap == JMap(<<>>)

\* decoded spec documents the spec URL may serve
Docs ==
    << \* the scenario of the spec: one path, one operation, no servers
       JMap(<< <<S_paths, JMap(<< <<P_health, JMap(<< <<S_get, Operation(S_health_check)>> >>)>> >>)>> >>),
       \* two servers, mixed-case and unsupported methods, a path with no supported method
       JMap(<< <<S_servers, JList(<<Server(U_h), Server(U_http_g)>>)>>,
               <<S_paths, JMap(<< <<P_a, JMap(<< <<K_GET, EmptyMap>>, <<K_options, EmptyMap>> >>)>>,
                                  <<P_b, JMap(<< <<K_HEAD, JNull>> >>)>> >>)>> >>),
       \* empty servers, two keys of one path that upper-case to the same method
       JMap(<< <<S_servers, JList(<<>>)>>,
               <<S_paths, JMap(<< <<P_a, JMap(<< <<K_Post, Operation(S_s)>>, <<S_post, EmptyMap>> >>)>> >>)>> >>),
       \* first server without url, second with one; no paths
       JMap(<< <<S_servers, JList(<<JMap(<< <<S_description, JStr(S_s)>> >>), Server(U_http_g)>>)>> >>),
       \* schemed server url with a trailing slash; empty paths
       JMap(<< <<S_servers, JList(<<Server(U_https_g_slash)>>)>>, <<S_paths, EmptyMap>> >>),
       \* schemed server url without a trailing slash
       JMap(<< <<S_servers, JList(<<Server(U_https_g)>>)>> >>),
       \* server url ending in two slashes
       JMap(<< <<S_servers, JList(<<Server(U_h_2slash)>>)>> >>),
       \* server url that is null
       JMap(<< <<S_servers, JList(<<JMap(<< <<S_url, JNull>> >>)>>)>> >>),
       \* servers that is a mapping
       JMap(<< <<S_servers, Server(U_h)>> >>),
       \* a top-level list
       JList(<<>>),
       \* a top-level null
       JNull,
       \* paths that is a list
       JMap(<< <<S_paths, JList(<<>>)>> >>),
       \* an operation that is a list
       JMap(<< <<S_paths, JMap(<< <<P_a, JMap(<< <<S_get, JList(<<>>)>> >>)>> >>)>> >> ) >>

E_refused == <<"r", "e", "f", "u", "s", "e", "d">>
E_timeout == <<"t", "i", "m", "e", "d", " ", "o", "u", "t">>

NetFail(exc, msg) == [kind |-> "fail", exc |-> exc, msg |-> msg]
SpecResponse(status_code, json) == [kind |-> "resp", status_code |-> status_code, json |-> json]
Response(status_code, content, headers) ==
    [kind |-> "resp", status_code |-> status_code, content |-> content, headers |-> headers]

\* outcomes of the GET on the spec URL
SpecNets ==
    << NetFail("ConnectionError", E_refused),
       NetFail("Timeout", E_timeout),
       SpecResponse(404, Ok(Docs[1])),
       SpecResponse(500, Raise("JSONDecodeError")),
       SpecResponse(200, Raise("JSONDecodeError")),
       SpecResponse(300, Ok(Docs[1])),
       SpecResponse(304, Raise("JSONDecodeError")) >>
    \o [i \in 1..Len(Docs) |-> SpecResponse(200, Ok(Docs[i]))]

JsonHeaders == [x \in {"Content-Type"} |-> "application/json"]

\* outcomes of a verb request
VerbNets ==
    << NetFail("ConnectionError", E_refused),
       NetFail("Timeout", E_timeout),
       Response(200, B_status_ok, JsonHeaders),
       Response(101, <<>>, <<>>),
       Response(304, <<>>, <<>>),
       Response(400, B_null, JsonHeaders),
       Response(404, B_html, [x \in {"Content-Type"} |-> "text/html"]),
       Response(503, B_detail, JsonHeaders) >>

Params == JMap(<< <<S_q, JStr(S_s)>> >>)
Body == JMap(<< <<S_k, JNum(1)>> >>)

\* arguments of get and delete
QueryArgs ==
    << [path |-> P_health, params |-> JNull],
       [path |-> P_rel, params |-> JNull],
       [path |-> P_rel, params |-> Params] >>

\* arguments of post, put and patch
BodyArgs ==
    << [path |-> P_a, params |-> JNull, data |-> JNull],
       [path |-> P_rel, params |-> Params, data |-> EmptyMap],
       [path |-> P_a, params |-> JNull, data |-> Body],
       [path |-> P_rel, params |-> Params, data |-> Body] >>

LookupPaths == {P_a, P_b, P_zz}
LookupMethods == {S_get, K_GET, K_Post, K_trace, K_HEAD}

(***************************************************************************)
(* State                                                                   *)
(***************************************************************************)
VARIABLES
    pc,         \* "new": not constructed; "ready": a client exists; "failed": __init__ raised
    config,     \* self.config
    spec_dict,  \* self.spec_dict
    endpoints,  \* self.endpoints
    nFetch,     \* GET requests issued on the spec URL
    nReq,       \* verb requests issued
    specNet,    \* what the transport answered to the spec fetch
    call,       \* the last operation called and its arguments
    frame,      \* the locals base_url and url of the last verb call
    sent,       \* the last verb request handed to the transport
    net,        \* what the transport answered to it
    ret,        \* how the last operation ended: a returned value or a raised exception
    proc,       \* the command-line process: its arguments, position, output and exit status
    thr         \* the threads calling into one client: each one's locals and position

vars == <<pc, config, spec_dict, endpoints, nFetch, nReq, specNet, call, frame, sent, net, ret,
         proc, thr>>

Unset == [t |-> "unset"]
None == [kind |-> "none"]

Init ==
    /\ pc = "new"
    /\ \E i \in 1..Len(Configs) : config = Configs[i]
    /\ spec_dict = Unset
    /\ endpoints = <<>>
    /\ nFetch = 0
    /\ nReq = 0
    /\ specNet = None
    /\ call = None
    /\ frame = None
    /\ sent = None
    /\ net = None
    /\ ret = None
    /\ proc = None
    /\ thr = None

(***************************************************************************)
(* APIClient.__init__                                                      *)
(***************************************************************************)
Construct(answer) ==
    LET spec == fetch_openapi_spec(answer)
        index == parse_endpoints(spec.v)
    IN /\ pc = "new"
       /\ nFetch' = nFetch + 1
       /\ specNet' = answer
       /\ call' = [kind |-> "call", op |-> "init"]
       /\ IF ~spec.ok
          THEN /\ pc' = "failed"
               /\ ret' = [kind |-> "raise", exc |-> spec.exc]
               /\ UNCHANGED <<spec_dict, endpoints>>
          ELSE IF ~index.ok
          THEN /\ pc' = "failed"
               /\ ret' = [kind |-> "raise", exc |-> index.exc]
               /\ UNCHANGED <<spec_dict, endpoints>>
          ELSE /\ pc' = "ready"
               /\ spec_dict' = spec.v
               /\ endpoints' = index.v
               /\ ret' = [kind |-> "return"]
       /\ UNCHANGED <<config, nReq, frame, sent, net, proc, thr>>

(***************************************************************************)
(* The five verb methods                                                   *)
(***************************************************************************)
\* the base URL resolved from the document as it was fetched, not as it is held
Request_cached_base_url(op, METHOD, path, params, data, answer) ==
    LET base_url == get_base_url(specNet.json.v, config)
        url == base_url.v \o NormalizePath(path)
        request_info ==
            IF METHOD \in {"POST", "PUT", "PATCH"}
            THEN [method |-> METHOD, url |-> url, params |-> params, data |-> data]
            ELSE [method |-> METHOD, url |-> url, params |-> params]
        kwargs == prepare_request_kwargs(config, params, data)
    IN /\ pc = "ready"
       /\ nReq < MaxCalls
       /\ call' = [kind |-> "call", op |-> op, path |-> path, params |-> params, data |-> data]
       /\ IF ~base_url.ok
          THEN /\ ret' = [kind |-> "raise", exc |-> base_url.exc]
               /\ frame' = None
               /\ sent' = None
               /\ net' = None
               /\ UNCHANGED nReq
          ELSE /\ frame' = [kind |-> "locals", base_url |-> base_url.v, url |-> url]
               /\ sent' = [kind |-> "request", method |-> METHOD, url |-> url, kwargs |-> kwargs]
               /\ nReq' = nReq + 1
               /\ net' = answer
               /\ ret' = [kind |-> "return",
                          value |-> IF answer.kind = "fail"
                                    THEN failure_response(answer, request_info)
                                    ELSE process_response(answer, request_info)]
       /\ UNCHANGED <<pc, config, spec_dict, endpoints, nFetch, specNet, proc, thr>>

\* the body the five methods share: METHOD is the verb, info the
\* request_info built from the url, kwargs the prepared keyword arguments
Request(op, METHOD, path, params, data, answer) ==
    LET base_url == get_base_url(spec_dict, config)
        url == base_url.v \o NormalizePath(path)
        request_info ==
            IF METHOD \in {"POST", "PUT", "PATCH"}
            THEN [method |-> METHOD, url |-> url, params |-> params, data |-> data]
            ELSE [method |-> METHOD, url |-> url, params |-> params]
        kwargs == prepare_request_kwargs(config, params, data)
    IN /\ pc = "ready"
       /\ nReq < MaxCalls
       /\ call' = [kind |-> "call", op |-> op, path |-> path, params |-> params, data |-> data]
       /\ IF ~base_url.ok
          THEN /\ ret' = [kind |-> "raise", exc |-> base_url.exc]
               /\ frame' = None
               /\ sent' = None
               /\ net' = None
               /\ UNCHANGED nReq
          ELSE /\ frame' = [kind |-> "locals", base_url |-> base_url.v, url |-> url]
               /\ sent' = [kind |-> "request", method |-> METHOD, url |-> url, kwargs |-> kwargs]
               /\ nReq' = nReq + 1
               /\ net' = answer
               /\ ret' = [kind |-> "return",
                          value |-> IF answer.kind = "fail"
                                    THEN failure_response(answer, request_info)
                                    ELSE process_response(answer, request_info)]
       /\ UNCHANGED <<pc, config, spec_dict, endpoints, nFetch, specNet, proc, thr>>

Get(path, params, answer) == Request("get", "GET", path, params, JNull, answer)

Post(path, data, params, answer) == Request("post", "POST", path, params, data, answer)

Put(path, data, params, answer) == Request("put", "PUT", path, params, data, answer)

Delete(path, params, answer) == Request("delete", "DELETE", path, params, JNull, answer)

Patch(path, data, params, answer) == Request("patch", "PATCH", path, params, data, answer)

(***************************************************************************)
(* The read-only lookups                                                   *)
(***************************************************************************)
GetAvailableEndpoints ==
    /\ pc = "ready"
    /\ call' = [kind |-> "call", op |-> "endpoints"]
    /\ ret' = [kind |-> "return", value |-> endpoints]
    /\ frame' = None
    /\ sent' = None
    /\ net' = None
    /\ UNCHANGED <<pc, config, spec_dict, endpoints, nFetch, nReq, specNet, proc, thr>>

\* a lookup that misses the path leaves an empty entry for it in the index
GetEndpointDetails_setdefault(path, method) ==
    LET found == get_endpoint_details(endpoints, path, method) IN
    /\ pc = "ready"
    /\ call' = [kind |-> "call", op |-> "details", path |-> path, method |-> method]
    /\ ret' = IF found.ok THEN [kind |-> "return", value |-> found.v]
              ELSE [kind |-> "raise", exc |-> found.exc, msg |-> found.msg]
    /\ endpoints' = IF path \in DOMAIN endpoints THEN endpoints
                    ELSE [p \in DOMAIN endpoints \cup {path} |->
                             IF p = path THEN <<>> ELSE endpoints[p]]
    /\ frame' = None
    /\ sent' = None
    /\ net' = None
    /\ UNCHANGED <<pc, config, spec_dict, nFetch, nReq, specNet, proc, thr>>

GetEndpointDetails(path, method) ==
    LET found == get_endpoint_details(endpoints, path, method) IN
    /\ pc = "ready"
    /\ call' = [kind |-> "call", op |-> "details", path |-> path, method |-> method]
    /\ ret' = IF found.ok THEN [kind |-> "return", value |-> found.v]
              ELSE [kind |-> "raise", exc |-> found.exc, msg |-> found.msg]
    /\ frame' = None
    /\ sent' = None
    /\ net' = None
    /\ UNCHANGED <<pc, config, spec_dict, endpoints, nFetch, nReq, specNet, proc, thr>>

Next ==
    \/ \E i \in 1..Len(SpecNets) : Construct(SpecNets[i])
    \/ \E i \in 1..Len(QueryArgs), a \in 1..Len(VerbNets) :
          Get(QueryArgs[i].path, QueryArgs[i].params, VerbNets[a])
    \/ \E i \in 1..Len(BodyArgs), a \in 1..Len(VerbNets) :
          Post(BodyArgs[i].path, BodyArgs[i].data, BodyArgs[i].params, VerbNets[a])
    \/ \E i \in 1..Len(BodyArgs), a \in 1..Len(VerbNets) :
          Put(BodyArgs[i].path, BodyArgs[i].data, BodyArgs[i].params, VerbNets[a])
    \/ \E i \in 1..Len(QueryArgs), a \in 1..Len(VerbNets) :
          Delete(QueryArgs[i].path, QueryArgs[i].params, VerbNets[a])
    \/ \E i \in 1..Len(BodyArgs), a \in 1..Len(VerbNets) :
          Patch(BodyArgs[i].path, BodyArgs[i].data, BodyArgs[i].params, VerbNets[a])
    \/ GetAvailableEndpoints
    \/ \E path \in LookupPaths, method \in LookupMethods : GetEndpointDetails(path, method)

Spec == Init /\ [][Next]_vars

(***************************************************************************)
(* Properties                                                              *)
(***************************************************************************)
VerbOps == {"get", "post", "put", "delete", "patch"}

\* the last operation was a verb method that handed a request to the transport
VerbReturned == call.kind = "call" /\ call.op \in VerbOps /\ ret.kind = "return"

\* C1: every verb call returns an APIResult and never raises, and after a
\* transport failure or an error status the result has success = false and
\* an error that is not null
C1_VerbNeverRaises ==
    (call.kind = "call" /\ call.op \in VerbOps) =>
        /\ ret.kind = "return"
        /\ (net.kind = "fail" \/ (net.kind = "resp" /\ net.status_code >= 400)) =>
              (~ret.value.success /\ ret.value.error # JNull)

\* C2: after a transport failure the result is status 500, success false,
\* error the text of the failure, data null, headers empty
C2_TransportFailureResult ==
    (call.kind = "call" /\ call.op \in VerbOps /\ net.kind = "fail") =>
        /\ ret.kind = "return"
        /\ ret.value.status_code = 500
        /\ ret.value.success = FALSE
        /\ ret.value.error = JStr(net.msg)
        /\ ret.value.data = JNull
        /\ DOMAIN ret.value.headers = {}

C2_Witness ==
    /\ call.kind = "call" /\ call.op = "patch"
    /\ net.kind = "fail" /\ net.exc = "Timeout"
    /\ ret.kind = "return" /\ ret.value.status_code = 500

\* C3: in every returned result success holds exactly when status_code < 400,
\* and error is null exactly when success holds
C3_SuccessIffBelow400 ==
    VerbReturned =>
        /\ ret.value.success <=> (ret.value.status_code < 400)
        /\ (ret.value.error = JNull) <=> ret.value.success

C3_Witness ==
    /\ VerbReturned /\ nReq = MaxCalls
    /\ net.kind = "resp" /\ net.status_code = 400
    /\ ~ret.value.success /\ ret.value.error # JNull

\* C4 as stated: a response whose status is outside 200..299 gives
\* success = false and an error that is not null
C4_NonSuccessStatusFails ==
    (VerbReturned /\ net.kind = "resp" /\ ~(net.status_code \in 200..299)) =>
        (~ret.value.success /\ ret.value.error # JNull)

\* C4 as amended: a response whose status is 400 or more gives success = false
\* and an error that is not null; a response whose status is below 400, 1xx
\* and 3xx included, gives success = true and a null error
C4_ErrorStatusFails ==
    (VerbReturned /\ net.kind = "resp") =>
        /\ ret.value.status_code = net.status_code
        /\ net.status_code >= 400 => (~ret.value.success /\ ret.value.error # JNull)
        /\ net.status_code < 400 => (ret.value.success /\ ret.value.error = JNull)

C4_Witness ==
    /\ VerbReturned /\ call.op = "delete"
    /\ net.kind = "resp" /\ net.status_code = 400 /\ Len(net.content) > 0
    /\ ~ret.value.success /\ ret.value.error = JStr(S_None)

\* the spec fetch ended in one of the three ways
SpecTransportFailed == specNet.kind = "fail"
SpecBodyUndecodable == specNet.kind = "resp" /\ ~specNet.json.ok
ConstructionFailed == pc = "failed" /\ call = [kind |-> "call", op |-> "init"]
                          /\ ret = [kind |-> "raise", exc |-> "ValueError"]

\* C5 as stated: construction fails with the spec-fetch error when the fetch
\* fails at transport level, answers a status outside 200..299, or answers a
\* body that is not JSON
C5_ConstructionFailsOnNon2xx ==
    (SpecTransportFailed
        \/ (specNet.kind = "resp" /\ ~(specNet.status_code \in 200..299))
        \/ SpecBodyUndecodable) => ConstructionFailed

\* C5 as amended: construction fails with the spec-fetch error when the fetch
\* fails at transport level, answers a 4xx or 5xx status, or answers a body
\* that is not JSON; no client exists then
C5_ConstructionFailsOnErrorStatus ==
    (SpecTransportFailed
        \/ (specNet.kind = "resp" /\ specNet.status_code \in 400..599)
        \/ SpecBodyUndecodable) => ConstructionFailed

C5_Witness ==
    /\ specNet.kind = "resp" /\ specNet.status_code = 404 /\ specNet.json.ok
    /\ ConstructionFailed /\ spec_dict = Unset

\* the spec fetch got a response without an error status and with a JSON body
SpecFetchSucceeded ==
    specNet.kind = "resp" /\ specNet.status_code < 400 /\ specNet.json.ok

\* C6: the spec is fetched exactly once, by the constructor and before any
\* verb request; no later operation fetches it again, and no verb request is
\* issued by a client whose spec fetch did not succeed
C6_SpecFetchedOnce ==
    /\ nFetch = (IF pc = "new" THEN 0 ELSE 1)
    /\ pc = "new" => nReq = 0
    /\ nReq > 0 => (pc = "ready" /\ SpecFetchSucceeded /\ spec_dict = specNet.json.v)
    /\ sent.kind = "request" => (pc = "ready" /\ SpecFetchSucceeded)

C6_Witness ==
    /\ nReq = MaxCalls /\ nFetch = 1
    /\ call.kind = "call" /\ call.op = "details"

M_POST == <<"P", "O", "S", "T">>
M_PUT == <<"P", "U", "T">>
M_DELETE == <<"D", "E", "L", "E", "T", "E">>
M_PATCH == <<"P", "A", "T", "C", "H">>
IndexMethods == {K_GET, M_POST, M_PUT, M_DELETE, M_PATCH}

\* the document the constructor was served
FetchedDocument == specNet.json.v
HasPaths(D) == D.t = "map" /\ S_paths \in Keys(D)

\* C7: the index has exactly the paths of D.paths (a path without supported
\* method has an empty inner mapping) and, under each path, exactly the
\* methods of {GET, POST, PUT, DELETE, PATCH} that have a key under that
\* path in D in any letter case
C7_IndexExact ==
    pc = "ready" =>
        IF HasPaths(FetchedDocument)
        THEN LET paths == Lookup(FetchedDocument, S_paths) IN
             /\ DOMAIN endpoints = Keys(paths)
             /\ \A p \in Keys(paths) :
                   DOMAIN endpoints[p] =
                       {M \in IndexMethods : \E k \in Keys(Lookup(paths, p)) : upper(k) = M}
        ELSE DOMAIN endpoints = {}

C7_Witness ==
    /\ pc = "ready"
    /\ DOMAIN endpoints = {P_a, P_b}
    /\ DOMAIN endpoints[P_a] = {K_GET}
    /\ DOMAIN endpoints[P_b] = {}

\* the document has a non-empty servers sequence whose first element has a url
FirstServerHasUrl ==
    /\ spec_dict.t = "map" /\ S_servers \in Keys(spec_dict)
    /\ LET servers == Lookup(spec_dict, S_servers) IN
       /\ servers.t = "list" /\ Len(servers.l) > 0
       /\ servers.l[1].t = "map" /\ S_url \in Keys(servers.l[1])
FirstServerUrl == Lookup(Lookup(spec_dict, S_servers).l[1], S_url)

\* the document has no servers, an empty servers, or a first server without url
FallbackCase ==
    /\ spec_dict.t = "map"
    /\ \/ S_servers \notin Keys(spec_dict)
       \/ LET servers == Lookup(spec_dict, S_servers) IN
          /\ servers.t = "list"
          /\ \/ Len(servers.l) = 0
             \/ servers.l[1].t = "map" /\ S_url \notin Keys(servers.l[1])

\* C8: the value normalised into the base URL is the url of the first server
\* when servers is present, non-empty and its first element has a url, and
\* the configured fallback when there is no servers, an empty servers or a
\* first element without url; later servers do not matter
C8_BaseSelection ==
    /\ frame.kind = "locals" =>
          IF FirstServerHasUrl
          THEN /\ FirstServerUrl.t = "str"
               /\ frame.base_url = EnsureScheme(StripSlash(FirstServerUrl.s))
          ELSE frame.base_url = EnsureScheme(StripSlash(config.api_base_url))
    /\ (call.kind = "call" /\ call.op \in VerbOps /\ FallbackCase) =>
          /\ frame.kind = "locals"
          /\ frame.base_url = EnsureScheme(StripSlash(config.api_base_url))

C8_Witness ==
    /\ frame.kind = "locals"
    /\ FirstServerHasUrl /\ Len(Lookup(spec_dict, S_servers).l) = 2
    /\ FirstServerUrl = JStr(U_h)
    /\ frame.base_url = HTTPS \o U_h

Schemed(u) == startswith(u, HTTP) \/ startswith(u, HTTPS)

\* C9: a base URL without http:// or https:// prefix resolves to a value that
\* starts with https:// and does not end with /; a base URL with such a
\* prefix and without trailing / resolves to itself
C9_Normalization ==
    frame.kind = "locals" =>
        LET chosen == IF FirstServerHasUrl THEN FirstServerUrl.s ELSE config.api_base_url IN
        /\ ~Schemed(chosen) =>
              (startswith(frame.base_url, HTTPS) /\ ~endswith(frame.base_url, SLASH))
        /\ (Schemed(chosen) /\ ~endswith(chosen, SLASH)) => frame.base_url = chosen

\* C10: endpointDetails returns the stored metadata exactly when the path is
\* in the index and the upper-cased method is under it; otherwise it raises,
\* with the path message when the path is absent and with the method message
\* when the path is present and the method is not
C10_EndpointDetails ==
    (call.kind = "call" /\ call.op = "details") =>
        LET known == call.path \in DOMAIN endpoints
            M == upper(call.method)
        IN IF known /\ M \in DOMAIN endpoints[call.path]
           THEN ret = [kind |-> "return", value |-> endpoints[call.path][M]]
           ELSE /\ ret.kind = "raise"
                /\ ret.exc = "ValueError"
                /\ ~known => (startswith(ret.msg, M_path_1) /\ ~startswith(ret.msg, M_meth_1))
                /\ known => (startswith(ret.msg, M_meth_1) /\ ~startswith(ret.msg, M_path_1))

C10_Witness ==
    /\ call.kind = "call" /\ call.op = "details"
    /\ call.path = P_a /\ call.method = S_get
    /\ ret.kind = "return"
    /\ K_GET \in DOMAIN endpoints[P_a]

\* decoding, checked on texts
DecoderCases ==
    /\ json_loads(B_obj) = Ok(JMap(<< <<S_k, JNum(1)>> >>))
    /\ json_loads(B_null) = Ok(JNull)
    /\ json_loads(B_html) = Raise("JSONDecodeError")
    /\ json_loads(<<>>) = Raise("JSONDecodeError")
    /\ json_loads(<<" ", "[", "1", "0", ",", " ", "t", "r", "u", "e", ",", "{", "}", "]", " ">>)
          = Ok(JList(<<JNum(10), JBool(TRUE), JMap(<<>>)>>))
    /\ json_loads(<<"{", "\"", "k", "\"", ":", "1", ",", "\"", "k", "\"", ":", "2", "}">>)
          = Ok(JMap(<< <<S_k, JNum(2)>> >>))
    /\ json_loads(<<"{", "\"", "k", "\"", ":", "1", ",", "}">>) = Raise("JSONDecodeError")
    /\ json_loads(<<"{", "b", "a", "d">>) = Raise("JSONDecodeError")
    /\ json_loads(<<"0", "1">>) = Raise("JSONDecodeError")
    /\ json_loads(<<"1", " ", "1">>) = Raise("JSONDecodeError")
    /\ json_loads(<<"\"", "\"">>) = Ok(JStr(<<>>))

\* the last verb call got an HTTP response
VerbAnswered == VerbReturned /\ net.kind = "resp"

\* C11: for a received response the data of the result is null when the
\* body is empty, the decoded value when the body decodes as JSON, and the
\* raw text of the body otherwise, whatever the status and the verb
C11_DataFromBody ==
    VerbAnswered =>
        LET direct == json_loads(net.content) IN
        /\ Len(net.content) = 0 => ret.value.data = JNull
        /\ (Len(net.content) > 0 /\ direct.ok) => ret.value.data = direct.v
        /\ (Len(net.content) > 0 /\ ~direct.ok) => ret.value.data = JStr(net.content)

C11_Witness ==
    /\ VerbAnswered /\ call.op = "put"
    /\ net.status_code = 404 /\ net.content = B_html
    /\ ret.value.data = JStr(B_html)

S_unavailable == <<"u", "n", "a", "v", "a", "i", "l", "a", "b", "l", "e">>
S_status == <<"s", "t", "a", "t", "u", "s">>
S_ok == <<"o", "k">>
S_detail == <<"d", "e", "t", "a", "i", "l">>

\* C12: for a response with status 400 or more the error is str() of the
\* decoded body, or the raw text when the body does not decode; get of
\* /v3/health answered 503 {"detail":"unavailable"} gives success false,
\* status 503 and an error containing "unavailable"; answered 200
\* {"status":"ok"} it gives success true, that data and a null error
C12_ErrorFromBody ==
    VerbAnswered =>
        /\ net.status_code >= 400 =>
              \/ /\ Len(net.content) = 0
                 /\ ret.value.error = JStr(S_None)
              \/ /\ Len(net.content) > 0 /\ json_loads(net.content).ok
                 /\ ret.value.error = JStr(PyStr(json_loads(net.content).v))
              \/ /\ Len(net.content) > 0 /\ ~json_loads(net.content).ok
                 /\ ret.value.error = JStr(net.content)
        /\ (call.op = "get" /\ call.path = P_health
                /\ net.status_code = 503 /\ net.content = B_detail) =>
              /\ ret.value.success = FALSE
              /\ ret.value.status_code = 503
              /\ IsSubstring(S_unavailable, ret.value.error.s)
        /\ (call.op = "get" /\ call.path = P_health
                /\ net.status_code = 200 /\ net.content = B_status_ok) =>
              /\ ret.value.success = TRUE
              /\ ret.value.status_code = 200
              /\ ret.value.data = JMap(<< <<S_status, JStr(S_ok)>> >>)
              /\ ret.value.error = JNull

C12_Witness ==
    /\ VerbAnswered /\ call.op = "get" /\ call.path = P_health
    /\ S_servers \notin Keys(spec_dict) /\ P_health \in DOMAIN endpoints
    /\ net.status_code = 503 /\ net.content = B_detail
    /\ ret.value.error = JStr(<<"{", "'">> \o S_detail \o <<"'", ":", " ", "'">>
                                 \o S_unavailable \o <<"'", "}">>)

\* C16: each verb call issues exactly one request and produces exactly one
\* APIResult, without fetching the spec; construction issues exactly one
\* spec fetch and a failed one ends in exactly one raised error
C16_NoRetries ==
    [][/\ (call'.kind = "call" /\ call'.op \in VerbOps) =>
              (nReq' = nReq + 1 /\ nFetch' = nFetch /\ ret'.kind = "return")
       /\ (call'.kind = "call" /\ call'.op = "init") =>
              /\ nFetch' = nFetch + 1 /\ nReq' = nReq
              /\ pc' = "failed" => ret'.kind = "raise"]_vars

BodyVerbs == {"post", "put", "patch"}

\* C18: a post, put or patch called with a body sends that body as the JSON
\* payload; without a body no payload is sent; get and delete send none
C18_BodyAttached ==
    (call.kind = "call" /\ call.op \in VerbOps /\ sent.kind = "request") =>
        /\ (call.op \in BodyVerbs /\ call.data # JNull) =>
              ("json" \in DOMAIN sent.kwargs /\ sent.kwargs.json = call.data)
        /\ (call.op \in BodyVerbs /\ call.data = JNull) => "json" \notin DOMAIN sent.kwargs
        /\ call.op \notin BodyVerbs => "json" \notin DOMAIN sent.kwargs

MethodName(op) ==
    CASE op = "get" -> "GET" [] op = "post" -> "POST" [] op = "put" -> "PUT"
      [] op = "delete" -> "DELETE" [] op = "patch" -> "PATCH"

C20_Frame ==
    [][pc = "ready" =>
          /\ pc' = "ready"
          /\ config' = config
          /\ spec_dict' = spec_dict
          /\ endpoints' = endpoints
          /\ (call'.kind = "call" /\ call'.op = "endpoints") =>
                /\ ret'.kind = "return"
                /\ ret'.value = parse_endpoints(specNet.json.v).v]_vars

C20_Witness ==
    /\ pc = "ready" /\ nReq = MaxCalls
    /\ call.kind = "call" /\ call.op = "details" /\ call.path = P_zz
    /\ ret.kind = "raise"
    /\ endpoints = parse_endpoints(specNet.json.v).v /\ DOMAIN endpoints # {}

(***************************************************************************)
(* json.dumps(obj, indent=2), for decoded JSON values whose strings are    *)
(* printable ASCII                                                         *)
(***************************************************************************)
Indent == 2

Spaces(n) == [i \in 1..n |-> " "]

\* a quote or a backslash is written behind a backslash
RECURSIVE Escaped(_)
Escaped(s) ==
    IF s = <<>> THEN <<>>
    ELSE (IF Head(s) \in {"\"", "\\"} THEN <<"\\", Head(s)>> ELSE <<Head(s)>>)
         \o Escaped(Tail(s))

RECURSIVE DumpValue(_, _), DumpItems(_, _, _), DumpPairs(_, _, _)
\* the text of v, opened at nesting depth level
DumpValue(v, level) ==
    CASE v.t = "null" -> <<"n", "u", "l", "l">>
      [] v.t = "bool" -> IF v.b THEN <<"t", "r", "u", "e">> ELSE <<"f", "a", "l", "s", "e">>
      [] v.t = "num" -> IntStr(v.n)
      [] v.t = "str" -> <<"\"">> \o Escaped(v.s) \o <<"\"">>
      [] v.t = "list" ->
            IF Len(v.l) = 0 THEN <<"[", "]">>
            ELSE <<"[", "\n">> \o DumpItems(v.l, 1, level + 1)
                 \o <<"\n">> \o Spaces(Indent * level) \o <<"]">>
      [] v.t = "map" ->
            IF Len(v.kv) = 0 THEN <<"{", "}">>
            ELSE <<"{", "\n">> \o DumpPairs(v.kv, 1, level + 1)
                 \o <<"\n">> \o Spaces(Indent * level) \o <<"}">>

DumpItems(l, i, level) ==
    IF i > Len(l) THEN <<>>
    ELSE Spaces(Indent * level) \o DumpValue(l[i], level)
         \o (IF i < Len(l) THEN <<",", "\n">> ELSE <<>>) \o DumpItems(l, i + 1, level)

DumpPairs(kv, i, level) ==
    IF i > Len(kv) THEN <<>>
    ELSE Spaces(Indent * level) \o <<"\"">> \o Escaped(kv[i][1]) \o <<"\"", ":", " ">>
         \o DumpValue(kv[i][2], level)
         \o (IF i < Len(kv) THEN <<",", "\n">> ELSE <<>>) \o DumpPairs(kv, i + 1, level)

json_dumps(obj) == DumpValue(obj, 0)

(***************************************************************************)
(* The endpoint index as the dict Python holds: keys in insertion order    *)
(***************************************************************************)
\* a key stands where it was first assigned: FirstOccurrences(seq) is seq
\* without the repetitions, MethodOrder the keys of endpoints[path]
EndpointsDict(spec_dict_, endpoints_) ==
    LET RECURSIVE FirstOccurrences(_)
        FirstOccurrences(seq) ==
            IF seq = <<>> THEN <<>>
            ELSE LET init == FirstOccurrences(SubSeq(seq, 1, Len(seq) - 1))
                     x == seq[Len(seq)]
                 IN IF \E i \in 1..Len(init) : init[i] = x THEN init ELSE Append(init, x)
        MethodOrder(methods) ==
            LET keys == [i \in 1..Len(methods.kv) |-> methods.kv[i][1]]
                IsKept(k) == lower(k) \in SupportedMethods
                kept == SelectSeq(keys, IsKept)
            IN FirstOccurrences([i \in 1..Len(kept) |-> upper(kept[i])])
        DetailsDict(d) ==
            JMap(<< <<S_summary, d.summary>>, <<S_description, d.description>>,
                    <<S_parameters, d.parameters>>, <<S_requestBody, d.requestBody>>,
                    <<S_responses, d.responses>> >>)
    IN IF DOMAIN endpoints_ = {} THEN JMap(<<>>)
       ELSE LET paths == Lookup(spec_dict_, S_paths)
                MethodsDict(i) ==
                    LET path == paths.kv[i][1]
                        order == MethodOrder(paths.kv[i][2])
                    IN JMap([j \in 1..Len(order) |->
                                <<order[j], DetailsDict(endpoints_[path][order[j]])>>])
            IN JMap([i \in 1..Len(paths.kv) |-> <<paths.kv[i][1], MethodsDict(i)>>])

(***************************************************************************)
(* cli.parse_json_arg and cli.format_response                              *)
(***************************************************************************)
S_StatusCode == <<"S", "t", "a", "t", "u", "s", " ", "C", "o", "d", "e", ":", " ">>
S_Success == <<"S", "u", "c", "c", "e", "s", "s", ":", " ">>
S_Data == <<"\n", "D", "a", "t", "a", ":">>
S_Error == <<"\n", "E", "r", "r", "o", "r", ":", " ">>
S_ErrorParsingJSON ==
    <<"E", "r", "r", "o", "r", " ", "p", "a", "r", "s", "i", "n", "g", " ", "J", "S", "O", "N", ":", " ">>

\* arg is None or a string.  Ok(value) when it returns, Raise("SystemExit")
\* when it prints the parse error and calls sys.exit(1); the text of the
\* decoder's message after the prefix is not modelled
parse_json_arg(arg) ==
    IF ~PyTruthy(arg) THEN Ok(JNull)
    ELSE LET parsed == json_loads(arg.s) IN
         IF parsed.ok THEN parsed
         ELSE [ok |-> FALSE, exc |-> "SystemExit", code |-> 1, out |-> <<S_ErrorParsingJSON>>]

\* the lines format_response prints without the error
format_response_no_error(response) ==
    IF "t" \in DOMAIN response /\ response.t = "map" THEN <<json_dumps(response)>>
    ELSE IF "status_code" \in DOMAIN response THEN
        <<S_StatusCode \o IntStr(response.status_code),
          S_Success \o (IF response.success THEN S_True ELSE S_False)>>
        \o (IF PyTruthy(response.data) THEN <<S_Data, json_dumps(response.data)>> ELSE <<>>)
    ELSE <<PyStr(response)>>

\* the lines format_response prints, one element for each print call
format_response(response) ==
    IF "t" \in DOMAIN response /\ response.t = "map" THEN <<json_dumps(response)>>
    ELSE IF "status_code" \in DOMAIN response THEN
        <<S_StatusCode \o IntStr(response.status_code),
          S_Success \o (IF response.success THEN S_True ELSE S_False)>>
        \o (IF PyTruthy(response.data) THEN <<S_Data, json_dumps(response.data)>> ELSE <<>>)
        \o (IF PyTruthy(response.error) THEN <<S_Error \o response.error.s>> ELSE <<>>)
    ELSE <<PyStr(response)>>

(***************************************************************************)
(* The command line in client mode: cli.main and cli.run_client_mode       *)
(*                                                                         *)
(* args is the namespace argparse returns: method is one of the six        *)
(* subcommands, params and data are None or the text given on the command  *)
(* line, and get and delete have no data attribute.                        *)
(***************************************************************************)
A_params == <<"{", "\"", "q", "\"", ":", " ", "\"", "s", "\"", "}">>
A_truncated == <<"{", "\"", "q", "\"", ":">>

QueryCommand(method, path, params) ==
    [method |-> method, path |-> path, params |-> params, base_url |-> U_http_h]

BodyCommand(method, path, data, params) ==
    [method |-> method, path |-> path, data |-> data, params |-> params, base_url |-> U_http_h]

CliArgs ==
    << QueryCommand("get", P_health, JNull),
       QueryCommand("get", P_rel, JStr(A_params)),
       QueryCommand("get", P_rel, JStr(A_truncated)),
       QueryCommand("get", P_a, JStr(<<>>)),
       QueryCommand("delete", P_a, JNull),
       BodyCommand("post", P_a, JStr(B_obj), JNull),
       BodyCommand("post", P_a, JStr(B_html), JNull),
       BodyCommand("post", P_rel, JStr(<<"{", "}">>), JStr(A_params)),
       BodyCommand("put", P_a, JStr(B_obj), JStr(A_truncated)),
       BodyCommand("patch", P_a, JNull, JNull),
       [method |-> "endpoints", base_url |-> U_http_h] >>

\* outcomes of the verb request of a command-line run
CliVerbNets == VerbNets \o <<Response(400, <<"\"", "\"">>, JsonHeaders)>>

\* getattr(args, name, None)
GetAttr(args, name) == IF name \in DOMAIN args THEN args[name] ELSE JNull

\* the exit status of sys.exit(1) and of an exception nothing catches
ExitFailure == 1
ExitSuccess == 0

CliInit ==
    /\ pc = "new"
    /\ config = Unset
    /\ spec_dict = Unset
    /\ endpoints = <<>>
    /\ nFetch = 0
    /\ nReq = 0
    /\ specNet = None
    /\ call = None
    /\ frame = None
    /\ sent = None
    /\ net = None
    /\ ret = None
    /\ \E i \in 1..Len(CliArgs) :
          proc = [pc |-> "run_client_mode", args |-> CliArgs[i], params |-> Unset,
                  data |-> Unset, out |-> <<>>, exit |-> None]
    /\ thr = None

\* the process ends: status is its exit status, lines what it printed last
Exit(status, lines) ==
    [proc EXCEPT !.pc = "exited", !.exit = status, !.out = proc.out \o lines]

\* lines 212-219: the configuration is built from the arguments and the
\* client constructed; an exception of the constructor ends the process
CliConstruct(answer) ==
    LET spec == fetch_openapi_spec(answer)
        index == parse_endpoints(spec.v)
    IN /\ proc.pc = "run_client_mode"
       /\ pc = "new"
       /\ config' = APIClientConfig(proc.args.base_url, <<>>)
       /\ nFetch' = nFetch + 1
       /\ specNet' = answer
       /\ call' = [kind |-> "call", op |-> "init"]
       /\ IF ~spec.ok
          THEN /\ pc' = "failed"
               /\ ret' = [kind |-> "raise", exc |-> spec.exc]
               /\ proc' = Exit(ExitFailure, <<>>)
               /\ UNCHANGED <<spec_dict, endpoints>>
          ELSE IF ~index.ok
          THEN /\ pc' = "failed"
               /\ ret' = [kind |-> "raise", exc |-> index.exc]
               /\ proc' = Exit(ExitFailure, <<>>)
               /\ UNCHANGED <<spec_dict, endpoints>>
          ELSE /\ pc' = "ready"
               /\ spec_dict' = spec.v
               /\ endpoints' = index.v
               /\ ret' = [kind |-> "return"]
               /\ proc' = [proc EXCEPT !.pc = "client"]
       /\ UNCHANGED <<nReq, frame, sent, net, thr>>

\* lines 221-224
CliEndpoints ==
    /\ proc.pc = "client"
    /\ proc.args.method = "endpoints"
    /\ call' = [kind |-> "call", op |-> "endpoints"]
    /\ ret' = [kind |-> "return", value |-> endpoints]
    /\ proc' = Exit(ExitSuccess, format_response(EndpointsDict(spec_dict, endpoints)))
    /\ UNCHANGED <<pc, config, spec_dict, endpoints, nFetch, nReq, specNet, frame, sent, net, thr>>

\* lines 226-227
CliParseArgs ==
    LET params == parse_json_arg(GetAttr(proc.args, "params"))
        data == parse_json_arg(GetAttr(proc.args, "data"))
    IN /\ proc.pc = "client"
       /\ proc.args.method # "endpoints"
       /\ proc' = IF ~params.ok THEN Exit(params.code, params.out)
                  ELSE IF ~data.ok THEN Exit(data.code, data.out)
                  ELSE [proc EXCEPT !.pc = "parsed", !.params = params.v, !.data = data.v]
       /\ UNCHANGED <<pc, config, spec_dict, endpoints, nFetch, nReq, specNet,
                      call, frame, sent, net, ret, thr>>

\* lines 229-243: the verb method of the subcommand is called and its result
\* printed; an exception of the verb method ends the process
CliVerb(answer) ==
    LET op == proc.args.method
        METHOD == MethodName(op)
        path == proc.args.path
        params == proc.params
        data == IF op \in BodyVerbs THEN proc.data ELSE JNull
        base_url == get_base_url(spec_dict, config)
        url == base_url.v \o NormalizePath(path)
        request_info ==
            IF op \in BodyVerbs
            THEN [method |-> METHOD, url |-> url, params |-> params, data |-> data]
            ELSE [method |-> METHOD, url |-> url, params |-> params]
        kwargs == prepare_request_kwargs(config, params, data)
        response == IF answer.kind = "fail"
                    THEN failure_response(answer, request_info)
                    ELSE process_response(answer, request_info)
    IN /\ proc.pc = "parsed"
       /\ pc = "ready"
       /\ call' = [kind |-> "call", op |-> op, path |-> path, params |-> params, data |-> data]
       /\ IF ~base_url.ok
          THEN /\ ret' = [kind |-> "raise", exc |-> base_url.exc]
               /\ frame' = None
               /\ sent' = None
               /\ net' = None
               /\ proc' = Exit(ExitFailure, <<>>)
               /\ UNCHANGED nReq
          ELSE /\ frame' = [kind |-> "locals", base_url |-> base_url.v, url |-> url]
               /\ sent' = [kind |-> "request", method |-> METHOD, url |-> url, kwargs |-> kwargs]
               /\ nReq' = nReq + 1
               /\ net' = answer
               /\ ret' = [kind |-> "return", value |-> response]
               /\ proc' = Exit(ExitSuccess, format_response(response))
       /\ UNCHANGED <<pc, config, spec_dict, endpoints, nFetch, specNet, thr>>

CliNext ==
    \/ \E i \in 1..Len(SpecNets) : CliConstruct(SpecNets[i])
    \/ CliEndpoints
    \/ CliParseArgs
    \/ \E a \in 1..Len(CliVerbNets) : CliVerb(CliVerbNets[a])

CliSpec == CliInit /\ [][CliNext]_vars

Exited == proc.pc = "exited"

\* the text given for an argument is not JSON
ArgMalformed(arg) == PyTruthy(arg) /\ ~json_loads(arg.s).ok

ArgsMalformed ==
    \/ ArgMalformed(GetAttr(proc.args, "params"))
    \/ ArgMalformed(GetAttr(proc.args, "data"))

\* C13: when --params or --data is not JSON the process exits with a
\* non-zero status, and at that exit neither the fetch of the document nor
\* the verb request has been issued
C13_MalformedExitsBeforeRequests ==
    (Exited /\ ArgsMalformed) => (proc.exit # ExitSuccess /\ nFetch = 0 /\ nReq = 0)

\* the verb request of the run was issued and failed remotely
RemoteFailure ==
    /\ Exited
    /\ call.kind = "call" /\ call.op \in VerbOps
    /\ sent.kind = "request"
    /\ (net.kind = "fail" \/ net.status_code >= ErrorStatus)

StatusLines ==
    /\ Len(proc.out) >= 2
    /\ proc.out[1] = S_StatusCode \o IntStr(IF net.kind = "fail" THEN FailureStatus
                                            ELSE net.status_code)
    /\ proc.out[2] = S_Success \o S_False

ErrorLine == S_Error \o ret.value.error.s

\* C14 as stated: after a verb request that failed remotely the process has
\* printed the status code, the success flag and the error text of the
\* result, and ends with exit status 0
C14_FailurePrinted ==
    RemoteFailure =>
        /\ proc.exit = ExitSuccess
        /\ StatusLines
        /\ proc.out[Len(proc.out)] = ErrorLine

\* C14: after a verb request that failed remotely the process has printed the
\* status code and the success flag of the result and ends with exit status
\* 0; the error line is the last line printed when the error text is not
\* empty, and no error line is printed when it is empty
C14_FailurePrintedUnlessEmpty ==
    RemoteFailure =>
        /\ proc.exit = ExitSuccess
        /\ StatusLines
        /\ ret.value.error.s # <<>> => proc.out[Len(proc.out)] = ErrorLine
        /\ ret.value.error.s = <<>> =>
              \A i \in 1..Len(proc.out) : ~startswith(proc.out[i], S_Error)

C14_Witness ==
    /\ RemoteFailure
    /\ net.kind = "fail"
    /\ proc.exit = ExitSuccess
    /\ proc.out = <<S_StatusCode \o <<"5", "0", "0">>, S_Success \o S_False,
                    S_Error \o E_refused>>

\* C15: a run ends with a non-zero exit status only when the text given for
\* --params or --data is not JSON
C15_NonZeroOnlyLocal ==
    (Exited /\ proc.exit # ExitSuccess) => ArgsMalformed

(***************************************************************************)
(* (1..NThreads) calling the verb methods of one constructed client              *)
(*                                                                         *)
(* Each thread makes one call.  A call is three steps: the statements      *)
(* before the try block, which read the document and the configuration     *)
(* and fill the locals; the preparation of the keyword arguments and the   *)
(* hand-over of the request to the transport; the processing of what the   *)
(* transport answered.  Steps of different threads interleave freely.      *)
(***************************************************************************)
NThreads == 2

\* the calls a thread may make
ThreadCalls ==
    << [op |-> "get", path |-> P_health, params |-> JNull, data |-> JNull],
       [op |-> "post", path |-> P_rel, params |-> Params, data |-> Body],
       [op |-> "patch", path |-> P_a, params |-> JNull, data |-> EmptyMap] >>

\* documents of the client the threads share
ThreadDocs == <<Docs[1], Docs[2], Docs[8]>>

ThreadInit ==
    /\ pc = "ready"
    /\ \E i \in 1..Len(Configs) : config = Configs[i]
    /\ \E d \in 1..Len(ThreadDocs) :
          /\ spec_dict = ThreadDocs[d]
          /\ endpoints = parse_endpoints(ThreadDocs[d]).v
          /\ specNet = SpecResponse(200, Ok(ThreadDocs[d]))
    /\ nFetch = 1
    /\ nReq = 0
    /\ call = None
    /\ frame = None
    /\ sent = None
    /\ net = None
    /\ ret = None
    /\ proc = None
    /\ thr = [t \in (1..NThreads) |-> [pc |-> "idle"]]

\* the locals of a call kept in one place for the client: a thread that enters
\* a verb method overwrites the request descriptor of the calls in flight
Enter_on_instance(t, c) ==
    LET METHOD == MethodName(c.op)
        base_url == get_base_url(spec_dict, config)
        url == base_url.v \o NormalizePath(c.path)
        request_info ==
            IF c.op \in BodyVerbs
            THEN [method |-> METHOD, url |-> url, params |-> c.params, data |-> c.data]
            ELSE [method |-> METHOD, url |-> url, params |-> c.params]
    IN /\ pc = "ready"
       /\ thr[t].pc = "idle"
       /\ thr' = [u \in (1..NThreads) |->
                     IF u = t
                     THEN IF ~base_url.ok
                          THEN [pc |-> "done", args |-> c,
                                ret |-> [kind |-> "raise", exc |-> base_url.exc]]
                          ELSE [pc |-> "try", args |-> c, base_url |-> base_url.v, url |-> url,
                                request_info |-> request_info]
                     ELSE IF base_url.ok /\ thr[u].pc \in {"try", "sent"}
                          THEN [thr[u] EXCEPT !.request_info = request_info]
                          ELSE thr[u]]
       /\ UNCHANGED <<pc, config, spec_dict, endpoints, nFetch, nReq, specNet,
                      call, frame, sent, net, ret, proc>>

\* thread t enters a verb method with the arguments c: the statements up to
\* the try block (lines 288-305 of post, and the same in the other four)
Enter(t, c) ==
    LET METHOD == MethodName(c.op)
        base_url == get_base_url(spec_dict, config)
        url == base_url.v \o NormalizePath(c.path)
        request_info ==
            IF c.op \in BodyVerbs
            THEN [method |-> METHOD, url |-> url, params |-> c.params, data |-> c.data]
            ELSE [method |-> METHOD, url |-> url, params |-> c.params]
    IN /\ pc = "ready"
       /\ thr[t].pc = "idle"
       /\ thr' = [thr EXCEPT ![t] =
                     IF ~base_url.ok
                     THEN [pc |-> "done", args |-> c,
                           ret |-> [kind |-> "raise", exc |-> base_url.exc]]
                     ELSE [pc |-> "try", args |-> c, base_url |-> base_url.v, url |-> url,
                           request_info |-> request_info]]
       /\ UNCHANGED <<pc, config, spec_dict, endpoints, nFetch, nReq, specNet,
                      call, frame, sent, net, ret, proc>>

\* lines 308-309: the keyword arguments are prepared and the request is
\* handed to the transport
Send(t) ==
    LET c == thr[t].args
        kwargs == prepare_request_kwargs(config, c.params,
                                         IF c.op \in BodyVerbs THEN c.data ELSE JNull)
    IN /\ thr[t].pc = "try"
       /\ thr' = [thr EXCEPT ![t] =
                     [pc |-> "sent", args |-> c, base_url |-> thr[t].base_url,
                      url |-> thr[t].url, request_info |-> thr[t].request_info,
                      sent |-> [kind |-> "request", method |-> MethodName(c.op),
                                url |-> thr[t].url, kwargs |-> kwargs]]]
       /\ nReq' = nReq + 1
       /\ UNCHANGED <<pc, config, spec_dict, endpoints, nFetch, specNet,
                      call, frame, sent, net, ret, proc>>

\* lines 310-318: the transport answers thread t and the method returns
Return(t, answer) ==
    /\ thr[t].pc = "sent"
    /\ thr' = [thr EXCEPT ![t] =
                  [pc |-> "done", args |-> thr[t].args, sent |-> thr[t].sent, net |-> answer,
                   ret |-> [kind |-> "return",
                            value |-> IF answer.kind = "fail"
                                      THEN failure_response(answer, thr[t].request_info)
                                      ELSE process_response(answer, thr[t].request_info)]]]
    /\ UNCHANGED <<pc, config, spec_dict, endpoints, nFetch, nReq, specNet,
                   call, frame, sent, net, ret, proc>>

ThreadNext ==
    \/ \E t \in (1..NThreads), i \in 1..Len(ThreadCalls) : Enter(t, ThreadCalls[i])
    \/ \E t \in (1..NThreads) : Send(t)
    \/ \E t \in (1..NThreads), a \in {1, 3, 8} : Return(t, VerbNets[a])

ThreadSpec == ThreadInit /\ [][ThreadNext]_vars

\* the request descriptor of the call c on the client as constructed
OwnDescriptor(c) ==
    LET url == get_base_url(spec_dict, config).v \o NormalizePath(c.path) IN
    IF c.op \in BodyVerbs
    THEN [method |-> MethodName(c.op), url |-> url, params |-> c.params, data |-> c.data]
    ELSE [method |-> MethodName(c.op), url |-> url, params |-> c.params]

\* the result of the call c answered with answer
OwnResult(c, answer) ==
    IF answer.kind = "fail" THEN failure_response(answer, OwnDescriptor(c))
    ELSE process_response(answer, OwnDescriptor(c))

\* C17: in every interleaving of the threads' calls no step changes the
\* configuration, the document or the index; the keyword arguments of a
\* request in flight, its headers included, are those built from the
\* configuration and the call's own arguments and stay as built; and the
\* result a thread gets carries the request descriptor of its own call and
\* the status, data and error of the answer to its own request
C17_NoInterference ==
    [][/\ config' = config
       /\ spec_dict' = spec_dict
       /\ endpoints' = endpoints
       /\ \A t \in (1..NThreads) :
             /\ thr'[t].pc = "sent" =>
                   /\ thr'[t].request_info = OwnDescriptor(thr'[t].args)
                   /\ thr'[t].sent.url = OwnDescriptor(thr'[t].args).url
                   /\ thr'[t].sent.kwargs.headers =
                         config.headers @@ ("Content-Type" :> "application/json")
             /\ thr[t].pc = "sent" => thr'[t].sent = thr[t].sent
             /\ (thr'[t].pc = "done" /\ thr'[t].ret.kind = "return") =>
                   LET result == thr'[t].ret.value
                       own == OwnResult(thr'[t].args, thr'[t].net)
                   IN /\ result.request_info = OwnDescriptor(thr'[t].args)
                      /\ result.status_code = own.status_code
                      /\ result.success = own.success
                      /\ result.data = own.data
                      /\ result.error = own.error]_vars

\* thread 1 has its result, a transport failure of its get, while the post
\* of thread 2, entered before thread 1 returned, is still in flight
C17_Witness ==
    /\ thr[1].pc = "done" /\ thr[1].args.op = "get" /\ thr[1].ret.kind = "return"
    /\ thr[1].net.kind = "fail"
    /\ thr[1].ret.value.request_info.method = "GET"
    /\ thr[2].pc = "sent" /\ thr[2].args.op = "post"
    /\ thr[2].sent.kwargs.json = Body
    /\ nReq = 2

\* C22: construction ends in a usable client or fails with the spec-fetch
\* error, and whenever the spec fetch got a body that decodes as JSON (without
\* an error status) the index is built and a usable client results
C22_ConstructionTwoOutcomes ==
    pc # "new" =>
        /\ pc = "ready" \/ ConstructionFailed
        /\ SpecFetchSucceeded => pc = "ready"

(***************************************************************************)
(* A caller that assigns spec_dict["servers"] between the calls             *)
(***************************************************************************)
\* values the caller assigns
ServerLists ==
    << JList(<<Server(U_https_g)>>),
       JList(<<>>),
       JList(<<Server(U_h_slash), Server(U_http_g)>>),
       JList(<<JMap(<< <<S_url, JNull>> >>)>>) >>

\* a client constructed from a document without servers or with two
MutInit ==
    /\ pc = "ready"
    /\ \E i \in 1..Len(Configs) : config = Configs[i]
    /\ \E d \in {1, 2} :
          /\ spec_dict = Docs[d]
          /\ endpoints = parse_endpoints(Docs[d]).v
          /\ specNet = SpecResponse(200, Ok(Docs[d]))
    /\ nFetch = 1
    /\ nReq = 0
    /\ call = None
    /\ frame = None
    /\ sent = None
    /\ net = None
    /\ ret = None
    /\ proc = None
    /\ thr = None

\* client.spec_dict["servers"] = servers, done by the caller
SetServers(servers) ==
    /\ pc = "ready"
    /\ spec_dict.t = "map"
    /\ spec_dict' = JMap(DictSet(spec_dict.kv, S_servers, servers))
    /\ UNCHANGED <<pc, config, endpoints, nFetch, nReq, specNet, call, frame, sent, net, ret,
                   proc, thr>>

MutNext ==
    \/ \E i \in 1..Len(QueryArgs), a \in {1, 3} :
          Get(QueryArgs[i].path, QueryArgs[i].params, VerbNets[a])
    \/ \E i \in {1, 4}, a \in {1, 3} :
          Post(BodyArgs[i].path, BodyArgs[i].data, BodyArgs[i].params, VerbNets[a])
    \/ \E i \in 1..Len(ServerLists) : SetServers(ServerLists[i])
    \/ GetAvailableEndpoints
    \/ \E path \in LookupPaths, method \in LookupMethods : GetEndpointDetails(path, method)

MutSpec == MutInit /\ [][MutNext]_vars

\* C21: a verb call that hands a request to the transport sends it to the
\* base URL resolved from the document as it is held when the call is made,
\* followed by the path; no step changes the index, the index returned by
\* get_available_endpoints is the one built from the fetched document, and
\* get_endpoint_details answers from that index
C21_BaseResolvedPerCall ==
    [][/\ endpoints' = endpoints
       /\ nReq' = nReq + 1 =>
             /\ sent'.url = get_base_url(spec_dict, config).v \o NormalizePath(call'.path)
             /\ ret'.value.request_info.url = sent'.url
       /\ (spec_dict' = spec_dict /\ call'.kind = "call" /\ call'.op = "endpoints") =>
             ret'.value = parse_endpoints(FetchedDocument).v
       /\ (spec_dict' = spec_dict /\ call'.kind = "call" /\ call'.op = "details") =>
             LET found == get_endpoint_details(parse_endpoints(FetchedDocument).v,
                                               call'.path, call'.method)
             IN IF found.ok THEN ret'.kind = "return" /\ ret'.value = found.v
                ELSE ret'.kind = "raise"]_vars

\* the second verb call of a client built from a document without servers
\* went to the server the caller put into the document after construction
C21_Witness ==
    /\ nReq = 2
    /\ S_servers \notin Keys(FetchedDocument)
    /\ get_base_url(FetchedDocument, config).v = U_http_h
    /\ spec_dict # FetchedDocument
    /\ call.kind = "call" /\ call.op = "get" /\ call.path = P_health
    /\ sent.url = U_https_g \o P_health
    /\ endpoints = parse_endpoints(FetchedDocument).v

=============================================================================
